---- MODULE Spec2Model ----
(***************************************************************************)
(* Heads-up pre-flop betting environment of MDPoker.                       *)
(*                                                                         *)
(* PreflopHeadsUpEnv (src/environment.py) with the legal-action generators *)
(* it is driven with (src/mdp_components.py, src/environment.py) and the   *)
(* reward and equity helpers it calls (src/utils.py).                      *)
(*                                                                         *)
(* Chips are counted in half big blinds, the unit of the small blind: the  *)
(* source's 0.5 is 1, 1 is 2, 2.5 is 5.  Equities are counted in           *)
(* thousandths (the source rounds them to three decimals), and rewards in  *)
(* thousandths of a chip.  Python's None is the number None for numeric    *)
(* fields and the string "None" for the seat.                              *)
(*                                                                         *)
(* The two tabular learners (src/q_learning_agent.py) are modelled as      *)
(* src/train.py calls them, under the specification AgentSpec.  Their      *)
(* table values are counted in units of 1 / QUnit, their exploration rate  *)
(* in thousandths and the features of a state vector in hundredths.        *)
(***************************************************************************)
EXTENDS Integers, Sequences, FiniteSets, TLC

\* ------------------------------------------------------------------ bounds
\* default_stack of the constructor, in half big blinds (the source's 100 big
\* blinds are 200).
DefaultStack == 10
\* Longest betting history explored; the source puts no limit on it.
MaxHistory == 4
\* Most update() calls explored on the two learners together.
MaxUpdates == 2

\* Most decay_epsilon() calls explored on one learner.
MaxDecays == 2

\* ------------------------------------------------------- program constants
BtnPost == 1
BbPost == 2
None == -1
Milli == 1000
MinOpenRaise == 4
\* The learners' constructor arguments: alpha = 1 / AlphaDen, gamma =
\* GammaNum / GammaDen, num_bins.
AlphaDen == 10
GammaNum == 19
GammaDen == 20
NumBins == 10
\* A feature of a state vector is counted in hundredths: 1.0 is VecUnit.
VecUnit == 100

Seats == {"BTN", "BB"}

Max(a, b) == IF a >= b THEN a ELSE b

\* ActionType and PokerAction.
ActionType == {"fold", "call", "check", "raise"}

PokerAction(t, amt) == [action_type |-> t, raise_amount |-> amt]

Fold == PokerAction("fold", None)
Call == PokerAction("call", None)
Check == PokerAction("check", None)
Raise(amt) == PokerAction("raise", amt)
NoAction == PokerAction("none", None)

\* Totals a caller may ask step() to raise to: every total up to two chips
\* above the stack, so that requests at or below the current bet and requests
\* above what the raiser holds both occur.
RaiseAmounts == 1..(DefaultStack + 2)

\* The arguments step() is called with; "invalid" is any action_type outside
\* the four of ActionType.
Actions ==
    {Fold, Call, Check, PokerAction("invalid", None)}
        \cup {Raise(r) : r \in RaiseAmounts}

VARIABLES
    players,          \* seat -> [stack, position]
    contributions,    \* seat -> chips put in this hand
    pot,              \* cached sum of the contributions
    betting_history,  \* sequence of [player, action, amount]
    current_bet,      \* highest total to call
    current_turn,     \* "BTN", "BB", or "None" before the first reset
    last_raise_size,  \* size of the last raise, None before any raise
    is_preflop,       \* pre-flop flag
    rewards,          \* (reward_BTN, reward_BB) last returned by step
    done,             \* done flag last returned by step
    error,            \* exception raised by the last call, "none" if it returned
    last_call,        \* the last call made: [op, action]
    Q,                \* learner -> its table, (state, action key) -> value
    epsilon,          \* learner -> exploration rate, in thousandths
    original_epsilon, \* the rates saved for the time of an evaluation
    phase,            \* "train" or "eval"
    agent_call,       \* the last call made on a learner, and its result
    updates,          \* update() calls made so far
    decays,           \* learner -> decay_epsilon() calls made on it so far
    hand,             \* the argument classify_hand is given
    classification,   \* what classify_hand made of it
    game_state,       \* PreflopEnv.state: the GameState held, NoState before a reset
    community_cards,  \* PreflopEnv.community_cards: how many are dealt
    rules_call,       \* the last call made on the GameRules variant, and its result
    episode_reward,   \* seat -> episode_btn_reward, episode_bb_reward of src/train.py
    episode_rewards,  \* the pairs recorded at the ends of the episodes
    update_call       \* learner -> the last update() it was given in this episode

env == <<players, contributions, pot, betting_history, current_bet,
         current_turn, last_raise_size, is_preflop>>

learners == <<Q, epsilon, original_epsilon, phase, agent_call, updates, decays>>

classifier == <<hand, classification>>

rules == <<game_state, community_cards, rules_call>>

training == <<episode_reward, episode_rewards, update_call>>

vars == <<players, contributions, pot, betting_history, current_bet,
          current_turn, last_raise_size, is_preflop, rewards, done, error,
          last_call, Q, epsilon, original_epsilon, phase, agent_call, updates,
          decays, hand, classification, game_state, community_cards,
          rules_call, episode_reward, episode_rewards, update_call>>

\* ----------------------------------------------------------- src/utils.py
\* What the equity service may answer to one request: an HTTP failure or an
\* error document, or two percentages, here in tenths of a percent.
ServiceError == [status |-> "error", player1Equity |-> 0, player2Equity |-> 0]

ServiceOk(p1, p2) == [status |-> "ok", player1Equity |-> p1, player2Equity |-> p2]

ServiceResponses ==
    {ServiceError, ServiceOk(500, 500), ServiceOk(700, 300),
     ServiceOk(499, 500), ServiceOk(600, 500), ServiceOk(100, 200)}

\* round(x, 3) of a value given in half thousandths.  A value halfway between
\* two thousandths goes up or down with its binary representation
\* (round(0.3335, 3) is 0.334, round(0.4995, 3) is 0.499): both are results.
Round3(h) == IF h % 2 = 0 THEN {h \div 2} ELSE {h \div 2, h \div 2 + 1}

\* calculate_equity after a successful request: the pairs it may return, in
\* thousandths.  A sum below 1 is topped up by half the missing part each.
calculate_equity(resp) ==
    LET equity1 == 2 * resp.player1Equity
        equity2 == 2 * resp.player2Equity
        total == equity1 + equity2
        missing == IF total < 2 * Milli THEN 2 * Milli - total ELSE 0
    IN  {<<e1, e2>> : e1 \in Round3(equity1 + missing \div 2),
                      e2 \in Round3(equity2 + missing \div 2)}

calculate_reward_no_fold(equity1, equity2, contribs) ==
    LET p == contribs["BTN"] + contribs["BB"]
    IN  <<(2 * equity1 - Milli) * p, (2 * equity2 - Milli) * p>>

\* Mutant of calculate_reward_fold: the folder pays the whole pot.
calculate_reward_fold_WholePot(folding_player, contribs) ==
    LET folded_amount == contribs["BTN"] + contribs["BB"]
    IN  IF folding_player = "BTN"
        THEN <<-(Milli * folded_amount), Milli * folded_amount>>
        ELSE <<Milli * folded_amount, -(Milli * folded_amount)>>

\* calculate_reward_fold: (reward_BTN, reward_BB) when folding_player folds.
calculate_reward_fold(folding_player, contribs) ==
    LET folded_amount == contribs[folding_player]
    IN  IF folding_player = "BTN"
        THEN <<-(Milli * folded_amount), Milli * folded_amount>>
        ELSE <<Milli * folded_amount, -(Milli * folded_amount)>>

\* The cards: a hand is the string rank1 suit1 rank2 suit2, here the
\* sequence of its characters.
Ranks == {"2", "3", "4", "5", "6", "7", "8", "9", "T", "J", "Q", "K", "A"}

Suits == {"h", "d", "c", "s"}

\* Estimated equity against a random hand of the 169 starting hands, in
\* hundredths.
hand_vs_random ==
    "AA" :> 85 @@ "KK" :> 82 @@ "QQ" :> 80 @@ "JJ" :> 77 @@ "TT" :> 75 @@
    "99" :> 72 @@ "88" :> 69 @@ "77" :> 67 @@ "66" :> 64 @@ "55" :> 61 @@
    "44" :> 58 @@ "33" :> 55 @@ "22" :> 52 @@ "AKs" :> 67 @@ "AQs" :> 66 @@
    "AJs" :> 64 @@ "ATs" :> 63 @@ "A9s" :> 62 @@ "A8s" :> 61 @@
    "A7s" :> 60 @@ "A6s" :> 59 @@ "A5s" :> 58 @@ "A4s" :> 57 @@
    "A3s" :> 56 @@ "A2s" :> 55 @@ "KQs" :> 63 @@ "KJs" :> 61 @@
    "KTs" :> 60 @@ "K9s" :> 59 @@ "K8s" :> 58 @@ "K7s" :> 57 @@
    "K6s" :> 56 @@ "K5s" :> 55 @@ "K4s" :> 54 @@ "K3s" :> 53 @@
    "K2s" :> 52 @@ "QJs" :> 60 @@ "QTs" :> 59 @@ "Q9s" :> 58 @@
    "Q8s" :> 57 @@ "Q7s" :> 56 @@ "Q6s" :> 55 @@ "Q5s" :> 54 @@
    "Q4s" :> 53 @@ "Q3s" :> 52 @@ "Q2s" :> 51 @@ "JTs" :> 58 @@
    "J9s" :> 57 @@ "J8s" :> 56 @@ "J7s" :> 55 @@ "J6s" :> 54 @@
    "J5s" :> 53 @@ "J4s" :> 52 @@ "J3s" :> 51 @@ "J2s" :> 50 @@
    "T9s" :> 56 @@ "T8s" :> 55 @@ "T7s" :> 54 @@ "T6s" :> 53 @@
    "T5s" :> 52 @@ "T4s" :> 51 @@ "T3s" :> 50 @@ "T2s" :> 49 @@
    "98s" :> 55 @@ "97s" :> 54 @@ "96s" :> 53 @@ "95s" :> 52 @@
    "94s" :> 51 @@ "93s" :> 50 @@ "92s" :> 49 @@ "87s" :> 54 @@
    "86s" :> 53 @@ "85s" :> 52 @@ "84s" :> 51 @@ "83s" :> 50 @@
    "82s" :> 49 @@ "76s" :> 52 @@ "75s" :> 51 @@ "74s" :> 50 @@
    "73s" :> 49 @@ "72s" :> 48 @@ "65s" :> 50 @@ "64s" :> 49 @@
    "63s" :> 48 @@ "62s" :> 47 @@ "54s" :> 48 @@ "53s" :> 47 @@
    "52s" :> 46 @@ "43s" :> 46 @@ "42s" :> 45 @@ "32s" :> 44 @@
    "AKo" :> 65 @@ "AQo" :> 64 @@ "AJo" :> 62 @@ "ATo" :> 61 @@
    "A9o" :> 60 @@ "A8o" :> 59 @@ "A7o" :> 58 @@ "A6o" :> 57 @@
    "A5o" :> 56 @@ "A4o" :> 55 @@ "A3o" :> 54 @@ "A2o" :> 53 @@
    "KQo" :> 61 @@ "KJo" :> 59 @@ "KTo" :> 58 @@ "K9o" :> 57 @@
    "K8o" :> 56 @@ "K7o" :> 55 @@ "K6o" :> 54 @@ "K5o" :> 53 @@
    "K4o" :> 52 @@ "K3o" :> 51 @@ "K2o" :> 50 @@ "QJo" :> 59 @@
    "QTo" :> 58 @@ "Q9o" :> 57 @@ "Q8o" :> 56 @@ "Q7o" :> 55 @@
    "Q6o" :> 54 @@ "Q5o" :> 53 @@ "Q4o" :> 52 @@ "Q3o" :> 51 @@
    "Q2o" :> 50 @@ "JTo" :> 57 @@ "J9o" :> 56 @@ "J8o" :> 55 @@
    "J7o" :> 54 @@ "J6o" :> 53 @@ "J5o" :> 52 @@ "J4o" :> 51 @@
    "J3o" :> 50 @@ "J2o" :> 49 @@ "T9o" :> 55 @@ "T8o" :> 54 @@
    "T7o" :> 53 @@ "T6o" :> 52 @@ "T5o" :> 51 @@ "T4o" :> 50 @@
    "T3o" :> 49 @@ "T2o" :> 48 @@ "98o" :> 54 @@ "97o" :> 53 @@
    "96o" :> 52 @@ "95o" :> 51 @@ "94o" :> 50 @@ "93o" :> 49 @@
    "92o" :> 48 @@ "87o" :> 53 @@ "86o" :> 52 @@ "85o" :> 51 @@
    "84o" :> 50 @@ "83o" :> 49 @@ "82o" :> 48 @@ "76o" :> 51 @@
    "75o" :> 50 @@ "74o" :> 49 @@ "73o" :> 48 @@ "72o" :> 47 @@
    "65o" :> 49 @@ "64o" :> 48 @@ "63o" :> 47 @@ "62o" :> 46 @@
    "54o" :> 47 @@ "53o" :> 46 @@ "52o" :> 45 @@ "43o" :> 45 @@
    "42o" :> 44 @@ "32o" :> 43

\* estimate_equity: the table's value, None where the lookup fails (the
\* caller then sees a ValueError).
estimate_equity(h) ==
    IF h \in DOMAIN hand_vs_random THEN hand_vs_random[h] ELSE None

greatness_order == <<"2", "3", "4", "5", "6", "7", "8", "9", "T", "J", "Q", "K", "A">>

\* str.index: the first place of a character in a string.
Index(str, ch) ==
    CHOOSE i \in 1..Len(str) : str[i] = ch /\ \A j \in 1..(i - 1) : str[j] # ch

\* Mutant of ordered_ranks: the ranks are kept in the order given.
ordered_ranks_AsGiven(rank1, rank2) ==
    rank1 \o rank2

\* The two ranks of a hand that is no pair, the greater first.
ordered_ranks(rank1, rank2) ==
    IF Index(greatness_order, rank1) > Index(greatness_order, rank2)
    THEN rank1 \o rank2
    ELSE rank2 \o rank1

connectivity_string == <<"2", "3", "4", "5", "6", "7", "8", "9", "T", "J", "Q", "K">>

connected_pairs ==
    {<<connectivity_string[i], connectivity_string[i + 1]>> :
         i \in 1..(Len(connectivity_string) - 1)}
        \cup {<<connectivity_string[i + 1], connectivity_string[i]>> :
                  i \in 1..(Len(connectivity_string) - 1)}
        \cup {<<"A", "2">>, <<"2", "A">>, <<"A", "K">>, <<"K", "A">>}

\* What a call of classify_hand gives: the tuple it returns, or the error it
\* raises.
Classified(label, is_suited, is_pair, is_connected, equity) ==
    [error |-> "none", classified |-> label, suited |-> is_suited,
     pair |-> is_pair, connected |-> is_connected, estimated_equity |-> equity]

ClassifyError(e) ==
    [error |-> e, classified |-> "", suited |-> FALSE, pair |-> FALSE,
     connected |-> FALSE, estimated_equity |-> None]

NotClassified == ClassifyError("not called")

classify_hand(h) ==
    IF Len(h) # 4
    THEN ClassifyError("ValueError")
    ELSE LET rank1 == h[1]
             suit1 == h[2]
             rank2 == h[3]
             suit2 == h[4]
         IN  IF rank1 = rank2
             THEN LET label == rank1 \o rank2
                  IN  IF estimate_equity(label) = None
                      THEN ClassifyError("ValueError")
                      ELSE Classified(label, FALSE, TRUE, FALSE, estimate_equity(label))
             ELSE LET is_suited == (suit1 = suit2)
                      is_connected == \/ <<rank1, rank2>> \in connected_pairs
                                      \/ <<rank2, rank1>> \in connected_pairs
                      suffix == IF is_suited THEN "s" ELSE "o"
                      label == ordered_ranks(rank1, rank2) \o suffix
                  IN  IF estimate_equity(label) = None
                      THEN ClassifyError("ValueError")
                      ELSE Classified(label, is_suited, FALSE, is_connected,
                                      estimate_equity(label))

\* The hands classify_hand is given: every two cards in either order, the
\* same card twice included, and a string that is no hand.
Hands ==
    {<<rank1, suit1, rank2, suit2>> :
         rank1 \in Ranks, suit1 \in Suits, rank2 \in Ranks, suit2 \in Suits}
        \cup {<<"A", "s">>}

\* ----------------------------------------------------- src/environment.py
\* Mutant of Opponent: the seat itself.
Opponent_Self(current_player) == current_player

Opponent(current_player) == IF current_player = "BTN" THEN "BB" ELSE "BTN"

\* Mutant of SyncPot: the contributions are added to the pot held before.
SyncPot_Accumulated(contribs) == pot + contribs["BTN"] + contribs["BB"]

\* Mutant of SyncPot: the cached pot is left as it was.
SyncPot_Stale(contribs) == pot

\* The cached pot, recomputed from the contributions.
SyncPot(contribs) == contribs["BTN"] + contribs["BB"]

\* Chips a Call adds.
CallAdditional(bet, contribution) == Max(bet - contribution, 0)

\* Mutant of RaiseAdditional: a raise is not capped at the stack.
RaiseAdditional_Unclamped(raise_amount, contribution, stack) ==
    raise_amount - contribution

\* Chips a Raise adds: what the requested total needs, or the whole stack.
RaiseAdditional(raise_amount, contribution, stack) ==
    IF raise_amount - contribution > stack
    THEN stack
    ELSE raise_amount - contribution

\* Mutant of RaiseTotal: the requested total is booked even when capped.
RaiseTotal_Requested(raise_amount, contribution, stack) == raise_amount

\* Mutant of RaiseTotal: a capped raise is booked at the chips paid, the
\* raiser's earlier contribution forgotten.
RaiseTotal_StackOnly(raise_amount, contribution, stack) ==
    IF raise_amount - contribution > stack
    THEN stack
    ELSE raise_amount

\* The total a Raise is booked at: the requested one, or the all-in total.
RaiseTotal(raise_amount, contribution, stack) ==
    IF raise_amount - contribution > stack
    THEN contribution + stack
    ELSE raise_amount

\* Mutant of Pay: the chips are not taken from the stack.
Pay_NotDeducted(stacks, seat, additional) == stacks

\* The stacks after a seat pays chips, the contributions after it commits them.
Pay(stacks, seat, additional) == [stacks EXCEPT ![seat].stack = @ - additional]

Commit(contribs, seat, additional) == [contribs EXCEPT ![seat] = @ + additional]

\* Mutant of HandTerminates: BigBlind's Check no longer ends the hand.
HandTerminates_RaiseRuleOnly(action, current_player, history) ==
    /\ Len(history) >= 2
    /\ \E i \in 1..(Len(history) - 1) : history[i].action = "raise"
    /\ action.action_type = "call"

\* Mutant of HandTerminates: a Call after any first action ends the hand,
\* raise or no raise.
HandTerminates_CallAfterAnyAction(action, current_player, history) ==
    \/ is_preflop /\ action.action_type = "check" /\ current_player = "BB"
    \/ Len(history) >= 2 /\ action.action_type = "call"

\* Mutant of HandTerminates: every Call ends the hand, the opening limp too.
HandTerminates_AnyCall(action, current_player, history) ==
    \/ is_preflop /\ action.action_type = "check" /\ current_player = "BB"
    \/ action.action_type = "call"

\* Does this Call or Check end the hand?  history already holds its record.
HandTerminates(action, current_player, history) ==
    \/ is_preflop /\ action.action_type = "check" /\ current_player = "BB"
    \/ /\ Len(history) >= 2
       /\ \E i \in 1..(Len(history) - 1) : history[i].action = "raise"
       /\ action.action_type = "call"

Record(player, act, amount) == [player |-> player, action |-> act, amount |-> amount]

\* ------------------------------------------------- src/mdp_components.py
\* The ladder of raise totals: 2, 2.5, 3, 4, 5, 6, 8, 10, 20, ..., 100 big
\* blinds.
StandardOptions ==
    <<4, 5, 6, 8, 10, 12, 16, 20, 40, 60, 80, 100, 120, 140, 160, 180, 200>>

Range(seq) == {seq[i] : i \in 1..Len(seq)}

RaisesOf(options) == [i \in 1..Len(options) |-> Raise(options[i])]

\* get_available_actions without the test of a ladder option against the stack.
get_available_actions_StackIgnored(bet, player_stack, is_dealer, raise_size, is_first_action) ==
    LET call_or_check ==
            IF bet > 0 THEN Call ELSE IF is_dealer THEN Call ELSE Check
        player_contribution == IF is_dealer THEN BtnPost ELSE BbPost
        to_call == Max(0, bet - player_contribution)
        remaining == player_stack - to_call
        min_raise_total ==
            IF is_first_action /\ is_dealer THEN MinOpenRaise
            ELSE IF raise_size # None THEN bet + raise_size
            ELSE MinOpenRaise
        min_raise_additional == min_raise_total - player_contribution
        Affordable(option) == ~(option < min_raise_total)
        raise_options ==
            (IF min_raise_additional <= remaining THEN <<min_raise_total>> ELSE <<>>)
                \o SelectSeq(StandardOptions, Affordable)
        all_in_amount == player_contribution + remaining
        all_in ==
            IF all_in_amount \notin Range(raise_options) /\ all_in_amount > bet
            THEN <<Raise(all_in_amount)>>
            ELSE <<>>
    IN  <<Fold, call_or_check>>
            \o (IF remaining > 0 THEN RaisesOf(raise_options) \o all_in ELSE <<>>)

\* get_available_actions: the list it returns, in order.  The generator takes
\* the seat's contribution to be its posted blind.
get_available_actions(bet, player_stack, is_dealer, raise_size, is_first_action) ==
    LET call_or_check ==
            IF bet > 0 THEN Call ELSE IF is_dealer THEN Call ELSE Check
        player_contribution == IF is_dealer THEN BtnPost ELSE BbPost
        to_call == Max(0, bet - player_contribution)
        remaining == player_stack - to_call
        min_raise_total ==
            IF is_first_action /\ is_dealer THEN MinOpenRaise
            ELSE IF raise_size # None THEN bet + raise_size
            ELSE MinOpenRaise
        min_raise_additional == min_raise_total - player_contribution
        Affordable(option) ==
            /\ ~(option < min_raise_total)
            /\ option - player_contribution <= remaining
        raise_options ==
            (IF min_raise_additional <= remaining THEN <<min_raise_total>> ELSE <<>>)
                \o SelectSeq(StandardOptions, Affordable)
        all_in_amount == player_contribution + remaining
        all_in ==
            IF all_in_amount \notin Range(raise_options) /\ all_in_amount > bet
            THEN <<Raise(all_in_amount)>>
            ELSE <<>>
    IN  <<Fold, call_or_check>>
            \o (IF remaining > 0 THEN RaisesOf(raise_options) \o all_in ELSE <<>>)

\* ------------------------------------------- src/utils.py, BB_actions
\* The raise targets of BB_actions: 2, 3, 4, 5, 9, 15, 25, 50 big blinds.
DiscreteTargets == <<4, 6, 8, 10, 18, 30, 50, 100>>

\* BB_actions: BigBlind's options after Dealer's limp, as utils.py lists them.
\* Its dictionaries are written as PokerAction records.
BB_actions(player_stack, opponent_contributions) ==
    LET player_contribution == BbPost
        bet == 0
        to_call == Max(0, bet - player_contribution)
        remaining == player_stack - to_call
        min_target ==
            IF opponent_contributions # None
            THEN player_contribution + 2 * opponent_contributions
            ELSE MinOpenRaise
        Offered(target) ==
            /\ ~(target < min_target \/ target <= player_contribution)
            /\ target - player_contribution <= remaining
        raise_options == SelectSeq(DiscreteTargets, Offered)
        all_in_total == player_contribution + remaining
        all_in ==
            IF all_in_total > bet /\ all_in_total \notin Range(raise_options)
            THEN <<all_in_total>>
            ELSE <<>>
    IN  <<Check>> \o RaisesOf(raise_options \o all_in)

\* ----------------------------------- src/environment.py, interactive play
\* get_bb_actions_after_btn_call: BigBlind's options after Dealer's limp.
get_bb_actions_after_btn_call ==
    LET player_stack == players["BB"].stack
        min_raise_additional == MinOpenRaise - contributions["BB"]
        remaining == player_stack
        Affordable(option) == option - BbPost <= remaining
        raise_options == SelectSeq(StandardOptions, Affordable)
        all_in_amount == contributions["BB"] + remaining
        all_in ==
            IF all_in_amount \notin Range(raise_options)
            THEN <<Raise(all_in_amount)>>
            ELSE <<>>
    IN  <<Check>>
            \o (IF remaining >= min_raise_additional
                THEN RaisesOf(raise_options) \o all_in
                ELSE <<>>)

\* get_btn_actions_after_bb_call: Dealer's options after BigBlind's call.  It
\* adds last_raise_size to the bet, a TypeError while that is None.
get_btn_actions_after_bb_call ==
    LET player_stack == players["BTN"].stack
        player_contribution == contributions["BTN"]
        to_call == Max(0, current_bet - player_contribution)
        remaining == player_stack - to_call
        min_raise_total == current_bet + last_raise_size
        min_raise_additional == min_raise_total - player_contribution
        Affordable(option) ==
            /\ option >= min_raise_total
            /\ option - player_contribution <= remaining
        raise_options == SelectSeq(StandardOptions, Affordable)
        all_in_amount == player_contribution + remaining
        all_in ==
            IF all_in_amount \notin Range(raise_options)
            THEN <<Raise(all_in_amount)>>
            ELSE <<>>
    IN  <<Fold, Call>>
            \o (IF remaining > min_raise_additional
                THEN RaisesOf(raise_options) \o all_in
                ELSE <<>>)

\* A hand is being played: reset() has dealt one.
Dealt == current_turn \in Seats

\* The two special cases of the play loop.
BbAfterBtnCall ==
    /\ current_turn = "BB"
    /\ Len(betting_history) = 1
    /\ betting_history[1].player = "BTN"
    /\ betting_history[1].action = "call"

BtnAfterBbCall ==
    /\ current_turn = "BTN"
    /\ Len(betting_history) > 0
    /\ betting_history[Len(betting_history)].player = "BB"
    /\ betting_history[Len(betting_history)].action = "call"

\* The play loop's choice of the actions offered to the seat to act.
LegalActionsRaises == BtnAfterBbCall /\ last_raise_size = None

GeneratedActions ==
    get_available_actions(current_bet, players[current_turn].stack,
                          current_turn = "BTN", last_raise_size,
                          Len(betting_history) = 0)

LegalActions ==
    IF BbAfterBtnCall THEN get_bb_actions_after_btn_call
    ELSE IF BtnAfterBbCall THEN get_btn_actions_after_bb_call
    ELSE get_available_actions(current_bet, players[current_turn].stack,
                               current_turn = "BTN", last_raise_size,
                               Len(betting_history) = 0)

\* ----------------------------------------------- src/q_learning_agent.py
\* Table values are counted in units of 1 / QUnit, fine enough for MaxUpdates
\* updates to be exact.
QUnit == (AlphaDen * GammaDen) ^ MaxUpdates

Min(a, b) == IF a <= b THEN a ELSE b

\* None in the place of a state vector: the empty vector, which no state has.
NoVector == <<>>

\* discretize_state: each feature clamped to [0, 1], scaled by num_bins and
\* cut to an integer.
discretize_state(state_vector) ==
    [i \in 1..Len(state_vector) |->
        (Min(Max(state_vector[i], 0), VecUnit) * NumBins) \div VecUnit]

\* Mutant of action_to_key: every action is filed with its amount.
action_to_key_AlwaysAmount(action) ==
    <<action.action_type, action.raise_amount>>

\* action_to_key: the tuple an action is filed under.
action_to_key(action) ==
    IF action.action_type = "raise"
    THEN <<action.action_type, action.raise_amount>>
    ELSE <<action.action_type>>

\* self.Q.get(key, 0.0).
QGet(table, key) == IF key \in DOMAIN table THEN table[key] ELSE 0

\* Mutant of QPut: the table is started afresh with the one entry.
QPut_Afresh(table, key, value) ==
    [k \in {key} |-> value]

\* self.Q[key] = value.
QPut(table, key, value) ==
    [k \in DOMAIN table \cup {key} |-> IF k = key THEN value ELSE table[k]]

\* Mutant of Better: an action as good as the best so far replaces it.
Better_OrEqual(q_value, best_q, best_action) ==
    best_action = NoAction \/ q_value >= best_q

\* The test of choose_action's loop, q_value > best_q.  best_q starts at minus
\* infinity, which is while best_action is still None.
Better(q_value, best_q, best_action) ==
    best_action = NoAction \/ q_value > best_q

\* The loop of choose_action over legal_actions: the best_action it ends with.
RECURSIVE GreedyScan(_, _, _, _, _)
GreedyScan(table, state, legal_actions, best_q, best_action) ==
    IF legal_actions = <<>>
    THEN best_action
    ELSE LET action == Head(legal_actions)
             q_value == QGet(table, <<state, action_to_key(action)>>)
         IN  IF Better(q_value, best_q, best_action)
             THEN GreedyScan(table, state, Tail(legal_actions), q_value, action)
             ELSE GreedyScan(table, state, Tail(legal_actions), best_q, best_action)

\* choose_action: the actions it may return, roll being the value drawn from
\* np.random.rand().  np.random.choice may return any element of the list.
choose_action(table, eps, roll, state_vector, legal_actions) ==
    LET state == discretize_state(state_vector)
    IN  IF roll < eps
        THEN Range(legal_actions)
        ELSE LET best_action == GreedyScan(table, state, legal_actions, 0, NoAction)
             IN  IF best_action = NoAction
                 THEN Range(legal_actions)
                 ELSE {best_action}

\* The loop of update over legal_actions_next: the max_q_next it ends with.
RECURSIVE MaxQNext(_, _, _, _)
MaxQNext(table, next_state, legal_actions_next, max_q_next) ==
    IF legal_actions_next = <<>>
    THEN max_q_next
    ELSE MaxQNext(table, next_state, Tail(legal_actions_next),
                  Max(max_q_next,
                      QGet(table, <<next_state,
                                    action_to_key(Head(legal_actions_next))>>)))

\* update: the table after it.
update(table, state_vector, action, reward, next_state_vector, is_done, legal_actions_next) ==
    LET state == discretize_state(state_vector)
        action_key == action_to_key(action)
        current_q == QGet(table, <<state, action_key>>)
        target ==
            IF is_done \/ next_state_vector = NoVector
            THEN reward
            ELSE reward
                   + (GammaNum * MaxQNext(table, discretize_state(next_state_vector),
                                          legal_actions_next, 0)) \div GammaDen
        new_q == current_q + (target - current_q) \div AlphaDen
    IN  QPut(table, <<state, action_key>>, new_q)

\* What a learner is shown when it is its seat's turn: the state vector, cut
\* to two features (position and estimated equity, in hundredths), and the
\* list of legal actions.  BigBlind's two vectors fall into one bin, and
\* Dealer's second list holds a Call that carries an amount.
Observation(agent, state_vector, legal_actions) ==
    [agent |-> agent, state_vector |-> state_vector, legal_actions |-> legal_actions]

Observations ==
    {Observation("BTN", <<100, 47>>, <<Fold, Call, Raise(4)>>),
     Observation("BTN", <<100, 47>>, <<Fold, PokerAction("call", 4)>>),
     Observation("BB", <<0, 62>>, <<Check, Raise(4), Raise(6)>>),
     Observation("BB", <<0, 69>>, <<Check>>)}

\* What update is told of the state that follows: nothing (None and an empty
\* list), or the vector and the list of some turn.
NextObservations ==
    {[state_vector |-> NoVector, legal_actions |-> <<>>]}
        \cup {[state_vector |-> o.state_vector, legal_actions |-> o.legal_actions] :
                 o \in Observations}

\* Values of np.random.rand(), in thousandths: the least and the greatest.
RandValues == {0, Milli - 1}

\* Rewards handed to update: minus one chip, nothing, one chip.
Rewards == {-QUnit, 0, QUnit}

\* Mutant of decay_epsilon: the product is not held at min_epsilon.
decay_epsilon_Unclamped(eps, decay_rate, min_epsilon) ==
    (eps * decay_rate[1]) \div decay_rate[2]

\* decay_epsilon: the new rate, in thousandths; decay_rate is the fraction
\* decay_rate[1] / decay_rate[2].  With the rates of DecayRates the product
\* is a whole number of thousandths over as many calls as are explored.
decay_epsilon(eps, decay_rate, min_epsilon) ==
    Max(min_epsilon, (eps * decay_rate[1]) \div decay_rate[2])

\* The rates decay_epsilon is called with: 0.5, 0.8, 0.9.
DecayRates == {<<1, 2>>, <<4, 5>>, <<9, 10>>}

\* The least rates it is called with: 0.01 and 0.6.
MinEpsilons == {10, 600}

\* No update() has been given to a learner in this episode.
NoUpdateCall == [op |-> "none", reward |-> 0, done |-> FALSE]

NoAgentCall ==
    [op |-> "none", agent |-> "None", state_vector |-> NoVector,
     legal_actions |-> <<>>, explore |-> FALSE, action |-> NoAction]


\* ------------------------------------- src/src/simulation/game_rules.py
\* The two players of the GameRules variant: the first is the dealer (small
\* blind), the second the big blind.
PlayerIds == <<"player_0", "player_1">>

Position(player_id) == IF player_id = PlayerIds[1] THEN "DEALER" ELSE "BIG_BLIND"

Action == {"FOLD", "CHECK", "CALL", "RAISE", "ALL_IN"}

\* The default blinds of GameState and of PreflopEnv.reset: (0.5, 1.0).
DefaultBlinds == <<BtnPost, BbPost>>

\* PreflopEnv.state before the first reset.
NoState == <<>>

\* GameState(player_ids, hole_cards, stack_sizes, blinds): a hand at the start
\* of pre-flop play.  The blinds are taken off the stacks given.
GameState(stack_sizes, blinds) ==
    [stack_sizes |-> [p \in Range(PlayerIds) |->
                         stack_sizes[p] - (IF p = PlayerIds[1] THEN blinds[1] ELSE blinds[2])],
     pot_size |-> blinds[1] + blinds[2],
     betting_history |-> <<>>,
     active_players |-> Range(PlayerIds),
     stage |-> "PREFLOP",
     current_player |-> PlayerIds[1],
     winner |-> "None",
     last_raiser |-> PlayerIds[2],
     current_bet |-> blinds[2],
     player_bets |-> [p \in Range(PlayerIds) |->
                         IF p = PlayerIds[1] THEN blinds[1] ELSE blinds[2]]]

is_terminal(s) == s.stage = "TERMINAL"

\* GameState.get_legal_actions: the list for the current player.
get_legal_actions(s) ==
    IF is_terminal(s) THEN <<>>
    ELSE LET player_bet == s.player_bets[s.current_player]
             opponent_bet == s.current_bet
             stack == s.stack_sizes[s.current_player]
             min_raise_size == opponent_bet * 2
         IN  IF stack + player_bet < opponent_bet
             THEN <<"FOLD", "ALL_IN">>
             ELSE <<"FOLD">>
                  \o (IF player_bet < opponent_bet THEN <<"CALL">> ELSE <<>>)
                  \o (IF /\ s.stage = "PREFLOP"
                         /\ Position(s.current_player) = "BIG_BLIND"
                         /\ player_bet = opponent_bet
                         /\ Len(s.betting_history) > 0
                         /\ s.betting_history[Len(s.betting_history)].action = "CALL"
                      THEN <<"CHECK">> ELSE <<>>)
                  \o (IF stack + player_bet >= min_raise_size THEN <<"RAISE">> ELSE <<>>)
                  \o (IF stack > 0 THEN <<"ALL_IN">> ELSE <<>>)

\* Mutant of validate_action: the player is not compared with the one to act.
validate_action_AnyPlayer(s, player_id, action, raise_amount) ==
    IF is_terminal(s) THEN FALSE
    ELSE IF action \notin Range(get_legal_actions(s)) THEN FALSE
    ELSE IF action = "RAISE" /\ raise_amount # None
    THEN LET min_raise == s.current_bet * 2
         IN  IF raise_amount < min_raise THEN FALSE
             ELSE IF raise_amount > s.stack_sizes[player_id] + s.player_bets[player_id]
             THEN FALSE
             ELSE TRUE
    ELSE TRUE

\* GameRules.validate_action.
validate_action(s, player_id, action, raise_amount) ==
    IF is_terminal(s) THEN FALSE
    ELSE IF player_id # s.current_player THEN FALSE
    ELSE IF action \notin Range(get_legal_actions(s)) THEN FALSE
    ELSE IF action = "RAISE" /\ raise_amount # None
    THEN LET min_raise == s.current_bet * 2
         IN  IF raise_amount < min_raise THEN FALSE
             ELSE IF raise_amount > s.stack_sizes[player_id] + s.player_bets[player_id]
             THEN FALSE
             ELSE TRUE
    ELSE TRUE

opponent_id(player_id) == IF player_id = PlayerIds[1] THEN PlayerIds[2] ELSE PlayerIds[1]

_apply_fold(s, player_id) ==
    [s EXCEPT !.active_players = @ \ {player_id},
              !.winner = opponent_id(player_id),
              !.stage = "TERMINAL"]

_apply_check(s, player_id) ==
    [s EXCEPT !.current_player = opponent_id(player_id)]

_apply_call(s, player_id) ==
    LET call_amount == s.current_bet - s.player_bets[player_id]
    IN  [s EXCEPT !.stack_sizes[player_id] = @ - call_amount,
                  !.player_bets[player_id] = @ + call_amount,
                  !.pot_size = @ + call_amount,
                  !.current_player = opponent_id(player_id)]

_apply_raise(s, player_id, raise_amount) ==
    LET amount_to_add == raise_amount - s.player_bets[player_id]
    IN  [s EXCEPT !.stack_sizes[player_id] = @ - amount_to_add,
                  !.player_bets[player_id] = raise_amount,
                  !.pot_size = @ + amount_to_add,
                  !.current_bet = raise_amount,
                  !.last_raiser = player_id,
                  !.current_player = opponent_id(player_id)]

_apply_all_in(s, player_id) ==
    LET all_in_amount == s.stack_sizes[player_id] + s.player_bets[player_id]
        amount_to_add == s.stack_sizes[player_id]
    IN  [s EXCEPT !.stack_sizes[player_id] = 0,
                  !.player_bets[player_id] = all_in_amount,
                  !.pot_size = @ + amount_to_add,
                  !.current_bet = IF all_in_amount > s.current_bet THEN all_in_amount ELSE @,
                  !.last_raiser = IF all_in_amount > s.current_bet THEN player_id ELSE @,
                  !.current_player = opponent_id(player_id)]

\* Mutant of _update_game_stage: pre-flop play goes on after the first action.
_update_game_stage_AfterOption(s) ==
    LET last == s.betting_history[Len(s.betting_history)].action
        all_bets_matched == \A p \in DOMAIN s.player_bets : s.player_bets[p] = s.current_bet
    IN  IF Cardinality(s.active_players) = 1
        THEN [s EXCEPT !.stage = "TERMINAL",
                       !.winner = CHOOSE p \in s.active_players : TRUE]
        ELSE IF \A p \in DOMAIN s.stack_sizes : s.stack_sizes[p] = 0
        THEN [s EXCEPT !.stage = "TERMINAL"]
        ELSE IF /\ s.stage = "PREFLOP"
                /\ all_bets_matched
                /\ Len(s.betting_history) > 1
                /\ last \in {"CHECK", "CALL"}
        THEN [s EXCEPT !.stage = "FLOP",
                       !.player_bets = [p \in DOMAIN s.player_bets |-> 0],
                       !.current_bet = 0,
                       !.current_player = PlayerIds[1]]
        ELSE s

\* GameRules._update_game_stage, made after the action is recorded.
_update_game_stage(s) ==
    LET last == s.betting_history[Len(s.betting_history)].action
        all_bets_matched == \A p \in DOMAIN s.player_bets : s.player_bets[p] = s.current_bet
    IN  IF Cardinality(s.active_players) = 1
        THEN [s EXCEPT !.stage = "TERMINAL",
                       !.winner = CHOOSE p \in s.active_players : TRUE]
        ELSE IF \A p \in DOMAIN s.stack_sizes : s.stack_sizes[p] = 0
        THEN [s EXCEPT !.stage = "TERMINAL"]
        ELSE IF /\ s.stage = "PREFLOP"
                /\ all_bets_matched
                /\ \/ (Len(s.betting_history) > 0 /\ last = "CHECK")
                   \/ last = "CALL"
        THEN [s EXCEPT !.stage = "FLOP",
                       !.player_bets = [p \in DOMAIN s.player_bets |-> 0],
                       !.current_bet = 0,
                       !.current_player = PlayerIds[1]]
        ELSE s

\* What a call of apply_action gives: the new state it returns, or the error
\* it raises.
Applied(new_state) == [error |-> "none", new_state |-> new_state]

ApplyError(e) == [error |-> e, new_state |-> NoState]

\* GameRules.apply_action.  The new state is built by GameState(...) from a
\* copy of the stacks, which takes the default blinds off them, and the other
\* attributes are then copied over it.  A RAISE with no raise_amount passes
\* the validation and fails in the subtraction of _apply_raise.
apply_action(s, player_id, action, raise_amount) ==
    IF ~validate_action(s, player_id, action, raise_amount)
    THEN ApplyError("ValueError")
    ELSE IF action = "RAISE" /\ raise_amount = None
    THEN ApplyError("TypeError")
    ELSE LET created == GameState(s.stack_sizes, DefaultBlinds)
             new_state == [s EXCEPT !.stack_sizes = created.stack_sizes]
             acted ==
                 CASE action = "FOLD" -> _apply_fold(new_state, player_id)
                   [] action = "CHECK" -> _apply_check(new_state, player_id)
                   [] action = "CALL" -> _apply_call(new_state, player_id)
                   [] action = "RAISE" -> _apply_raise(new_state, player_id, raise_amount)
                   [] action = "ALL_IN" -> _apply_all_in(new_state, player_id)
             action_record ==
                 [player |-> player_id, action |-> action,
                  amount |-> IF action \in {"RAISE", "ALL_IN"} THEN raise_amount ELSE None]
             recorded ==
                 [acted EXCEPT !.betting_history = Append(@, action_record)]
         IN  Applied(_update_game_stage(recorded))

\* ------------------------------------- src/src/simulation/preflop_env.py
\* The equity of the acting player that the reward of a step is made from, in
\* thousandths: what the service answers, or the fallback.
PlayerEquities == {300, 500, 700}

\* PreflopEnv._calculate_preflop_reward for the acting player, in thousandths
\* of a chip.  A state is terminal only at stage TERMINAL, so the case of a
\* fold "at stage PREFLOP" never applies and a fold falls through to 0.
_calculate_preflop_reward(s, player_equity) ==
    IF ~is_terminal(s) /\ s.stage = "PREFLOP" THEN 0
    ELSE IF is_terminal(s) /\ s.winner # "None" /\ s.stage = "PREFLOP"
    THEN Milli * s.pot_size
    ELSE IF \/ s.stage = "FLOP"
            \/ (s.stage = "TERMINAL" /\ Cardinality(s.active_players) > 1)
    THEN (2 * player_equity - Milli) * s.pot_size
    ELSE 0

NoRulesCall ==
    [op |-> "none", player_id |-> "None", action |-> "none", raise_amount |-> None,
     error |-> "none", reward |-> 0, done |-> FALSE]

Constructed ==
    /\ players = <<>>
    /\ contributions = <<>>
    /\ pot = 0
    /\ betting_history = <<>>
    /\ current_bet = 0
    /\ current_turn = "None"
    /\ last_raise_size = None
    /\ is_preflop = TRUE
    /\ rewards = <<0, 0>>
    /\ done = FALSE
    /\ error = "none"
    /\ last_call = [op |-> "init", action |-> NoAction]
    /\ Q = [agent \in Seats |-> <<>>]
    /\ epsilon = [agent \in Seats |-> Milli]
    /\ original_epsilon = [agent \in Seats |-> Milli]
    /\ phase = "train"
    /\ agent_call = NoAgentCall
    /\ updates = 0
    /\ decays = [agent \in Seats |-> 0]
    /\ game_state = NoState
    /\ community_cards = 0
    /\ rules_call = NoRulesCall
    /\ episode_reward = [seat \in Seats |-> 0]
    /\ episode_rewards = <<>>
    /\ update_call = [agent \in Seats |-> NoUpdateCall]

Init ==
    /\ Constructed
    /\ hand = <<>>
    /\ classification = NotClassified

\* reset(); the caller clears its done flag with it (src/train.py:76-77).
\* The cards it deals are read by the equity service alone, whose answer is
\* drawn from ServiceResponses at showdown.
ResetHand ==
    /\ players' = [s \in Seats |->
                     [stack |-> DefaultStack - (IF s = "BTN" THEN BtnPost ELSE BbPost),
                      position |-> s]]
    /\ contributions' = [s \in Seats |-> IF s = "BTN" THEN BtnPost ELSE BbPost]
    /\ pot' = SyncPot(contributions')
    /\ current_bet' = BbPost
    /\ betting_history' = <<>>
    /\ current_turn' = "BTN"
    /\ last_raise_size' = None
    /\ is_preflop' = TRUE
    /\ rewards' = <<0, 0>>
    /\ done' = FALSE
    /\ error' = "none"
    /\ last_call' = [op |-> "reset", action |-> NoAction]

\* reset() leaves everything outside the environment alone.
Reset ==
    /\ ResetHand
    /\ UNCHANGED <<learners, classifier, rules, training>>

\* A call that raised: nothing is returned, the caller keeps its old values.
Raised(exception) ==
    /\ error' = exception
    /\ UNCHANGED <<rewards, done>>

Returned(r, d) ==
    /\ rewards' = r
    /\ done' = d
    /\ error' = "none"

\* Every call of step: the history explored is bounded, and the call is noted.
StepCalled(action) ==
    /\ Len(betting_history) < MaxHistory
    /\ last_call' = [op |-> "step", action |-> action]
    /\ UNCHANGED <<learners, classifier, rules, training>>

\* Mutant of StepFold: the fold is the only record kept.
StepFold_HistoryRestarted(action) ==
    /\ action.action_type = "fold"
    /\ StepCalled(action)
    /\ betting_history' = <<Record(current_turn, "fold", None)>>
    /\ IF current_turn \in DOMAIN contributions
       THEN Returned(calculate_reward_fold(current_turn, contributions), TRUE)
       ELSE Raised("ValueError")
    /\ UNCHANGED <<players, contributions, pot, current_bet, current_turn,
                   last_raise_size, is_preflop>>

\* Mutant of StepFold: the pot is paid out and emptied.
StepFold_PotEmptied(action) ==
    /\ action.action_type = "fold"
    /\ StepCalled(action)
    /\ betting_history' =
           Append(betting_history, Record(current_turn, "fold", None))
    /\ IF current_turn \in DOMAIN contributions
       THEN Returned(calculate_reward_fold(current_turn, contributions), TRUE)
       ELSE Raised("ValueError")
    /\ pot' = 0
    /\ UNCHANGED <<players, contributions, current_bet, current_turn,
                   last_raise_size, is_preflop>>

StepFold(action) ==
    /\ action.action_type = "fold"
    /\ StepCalled(action)
    /\ betting_history' =
           Append(betting_history, Record(current_turn, "fold", None))
    /\ IF current_turn \in DOMAIN contributions
       THEN Returned(calculate_reward_fold(current_turn, contributions), TRUE)
       ELSE Raised("ValueError")
    /\ UNCHANGED <<players, contributions, pot, current_bet, current_turn,
                   last_raise_size, is_preflop>>

StepCallCheck(action) ==
    /\ action.action_type \in {"call", "check"}
    /\ StepCalled(action)
    /\ IF current_turn \notin DOMAIN contributions
       THEN \* no hand was dealt: the lookup of the seat fails
            /\ Raised("KeyError")
            /\ betting_history' =
                   IF action.action_type = "check"
                   THEN Append(betting_history, Record(current_turn, "check", None))
                   ELSE betting_history
            /\ UNCHANGED <<players, contributions, pot, current_turn>>
       ELSE LET current_player == current_turn
                additional ==
                    IF action.action_type = "call"
                    THEN CallAdditional(current_bet, contributions[current_player])
                    ELSE 0
                history ==
                    Append(betting_history,
                           IF action.action_type = "call"
                           THEN Record(current_player, "call", current_bet)
                           ELSE Record(current_player, "check", None))
                contribs == Commit(contributions, current_player, additional)
            IN  /\ betting_history' = history
                /\ players' = Pay(players, current_player, additional)
                /\ contributions' = contribs
                /\ pot' = SyncPot(contribs)
                /\ IF HandTerminates(action, current_player, history)
                   THEN /\ \E resp \in ServiceResponses :
                              IF resp.status = "error"
                              THEN Raised("Exception")
                              ELSE \E eq \in calculate_equity(resp) :
                                      Returned(calculate_reward_no_fold(eq[1], eq[2], contribs),
                                               TRUE)
                        /\ UNCHANGED current_turn
                   ELSE /\ current_turn' = Opponent(current_player)
                        /\ Returned(<<0, 0>>, FALSE)
    /\ UNCHANGED <<current_bet, last_raise_size, is_preflop>>

\* Mutant of RaiseTooSmall: a raise to the current bet itself is let through.
RaiseTooSmall_BelowOnly(raise_amount, bet) == raise_amount < bet

\* The test a raise is refused by: its total does not exceed the current bet.
RaiseTooSmall(raise_amount, bet) == raise_amount <= bet

StepRaise(action) ==
    /\ action.action_type = "raise"
    /\ StepCalled(action)
    /\ IF RaiseTooSmall(action.raise_amount, current_bet)
       THEN /\ Raised("ValueError")
            /\ UNCHANGED env
       ELSE IF current_turn \notin DOMAIN contributions
       THEN /\ Raised("KeyError")
            /\ UNCHANGED env
       ELSE LET current_player == current_turn
                additional ==
                    RaiseAdditional(action.raise_amount, contributions[current_player],
                                    players[current_player].stack)
                raise_amount ==
                    RaiseTotal(action.raise_amount, contributions[current_player],
                               players[current_player].stack)
                contribs == Commit(contributions, current_player, additional)
            IN  /\ last_raise_size' = raise_amount - current_bet
                /\ players' = Pay(players, current_player, additional)
                /\ contributions' = contribs
                /\ pot' = SyncPot(contribs)
                /\ current_bet' = raise_amount
                /\ betting_history' =
                       Append(betting_history, Record(current_player, "raise", raise_amount))
                /\ current_turn' = Opponent(current_player)
                /\ Returned(<<0, 0>>, FALSE)
                /\ UNCHANGED is_preflop

StepInvalid(action) ==
    /\ action.action_type \notin ActionType
    /\ StepCalled(action)
    /\ Raised("ValueError")
    /\ UNCHANGED env

\* step(action): one of its four branches.
Step(action) ==
    \/ StepFold(action)
    \/ StepCallCheck(action)
    \/ StepRaise(action)
    \/ StepInvalid(action)

Next ==
    \/ Reset
    \/ \E action \in Actions : Step(action)

Spec == Init /\ [][Next]_vars

\* ------------------------------------- the learners, as src/train.py calls them
\* agent.choose_action(state_vector, legal_actions), in training and in
\* evaluation.  In training each choice is followed by its update.
ChooseAction(agent, state_vector, legal_actions, roll) ==
    /\ phase = "train" => agent_call.op # "choose_action"
    /\ \E action \in choose_action(Q[agent], epsilon[agent], roll,
                                    state_vector, legal_actions) :
           agent_call' =
               [op |-> "choose_action", agent |-> agent,
                state_vector |-> state_vector, legal_actions |-> legal_actions,
                explore |-> roll < epsilon[agent], action |-> action]
    /\ UNCHANGED <<Q, epsilon, original_epsilon, phase, updates>>
    /\ UNCHANGED <<env, rewards, done, error, last_call, classifier, decays, rules,
                   training>>

\* agent.update(state_vector, action, reward, next_state_vector, done,
\* legal_actions_next): the learner, state vector and action are those of the
\* choose_action that went before.
Update(reward, next_state_vector, is_done, legal_actions_next) ==
    /\ phase = "train"
    /\ agent_call.op = "choose_action"
    /\ updates < MaxUpdates
    /\ Q' = [Q EXCEPT ![agent_call.agent] =
                update(@, agent_call.state_vector, agent_call.action, reward,
                       next_state_vector, is_done, legal_actions_next)]
    /\ updates' = updates + 1
    /\ agent_call' =
           [agent_call EXCEPT !.op = "update", !.legal_actions = <<>>,
                              !.explore = FALSE]
    /\ UNCHANGED <<epsilon, original_epsilon, phase>>
    /\ UNCHANGED <<env, rewards, done, error, last_call, classifier, decays, rules,
                   training>>

\* The evaluation phase: both rates are saved and set to 0 ...
EvalBegin ==
    /\ phase = "train"
    /\ agent_call.op # "choose_action"
    /\ phase' = "eval"
    /\ original_epsilon' = epsilon
    /\ epsilon' = [agent \in Seats |-> 0]
    /\ agent_call' = NoAgentCall
    /\ UNCHANGED <<Q, updates>>
    /\ UNCHANGED <<env, rewards, done, error, last_call, classifier, decays, rules,
                   training>>

\* ... and restored at its end.
EvalEnd ==
    /\ phase = "eval"
    /\ phase' = "train"
    /\ epsilon' = original_epsilon
    /\ agent_call' = NoAgentCall
    /\ UNCHANGED <<Q, original_epsilon, updates>>
    /\ UNCHANGED <<env, rewards, done, error, last_call, classifier, decays, rules,
                   training>>

AgentNext ==
    \/ \E o \in Observations, roll \in RandValues :
            ChooseAction(o.agent, o.state_vector, o.legal_actions, roll)
    \/ \E reward \in Rewards, next \in NextObservations, is_done \in BOOLEAN :
            Update(reward, next.state_vector, is_done, next.legal_actions)
    \/ EvalBegin
    \/ EvalEnd

AgentSpec == Init /\ [][AgentNext]_vars

\* --------------------------------- decay_epsilon, src/q_learning_agent.py
\* agent.decay_epsilon(decay_rate, min_epsilon), as made on each learner at the
\* end of an episode.
DecayEpsilon(agent, decay_rate, min_epsilon) ==
    /\ phase = "train"
    /\ decays[agent] < MaxDecays
    /\ epsilon' = [epsilon EXCEPT ![agent] = decay_epsilon(@, decay_rate, min_epsilon)]
    /\ decays' = [decays EXCEPT ![agent] = @ + 1]
    /\ UNCHANGED <<Q, original_epsilon, phase, agent_call, updates>>
    /\ UNCHANGED <<env, rewards, done, error, last_call, classifier, rules, training>>

DecayNext ==
    \E agent \in Seats, decay_rate \in DecayRates, min_epsilon \in MinEpsilons :
        DecayEpsilon(agent, decay_rate, min_epsilon)

DecaySpec == Init /\ [][DecayNext]_vars

\* ------------------------------------------- classify_hand, src/utils.py
\* classify_hand applied to a hand.
HandInit ==
    /\ Constructed
    /\ hand \in Hands
    /\ classification = NotClassified

ClassifyHand ==
    /\ classification = NotClassified
    /\ classification' = classify_hand(hand)
    /\ UNCHANGED <<hand, env, learners, rewards, done, error, last_call, rules,
                   training>>

HandNext == ClassifyHand

HandSpec == HandInit /\ [][HandNext]_vars

\* ------------------------- the GameRules variant, src/src/simulation
\* The arguments apply_action and PreflopEnv.step are called with: an action,
\* and for a RAISE the total to raise to, or none.
RulesInputs ==
    {<<a, None>> : a \in Action} \cup {<<"RAISE", r>> : r \in RaiseAmounts}

\* PreflopEnv.reset() with its defaults: the two players, equal stacks, the
\* default blinds.
RulesReset ==
    /\ game_state' = GameState([p \in Range(PlayerIds) |-> DefaultStack], DefaultBlinds)
    /\ community_cards' = 0
    /\ rules_call' = [NoRulesCall EXCEPT !.op = "reset"]
    /\ UNCHANGED <<env, learners, classifier, rewards, done, error, last_call,
                   training>>

\* GameRules.apply_action(state, player_id, action, raise_amount) made on the
\* state held; the caller goes on with the state returned.
ApplyAction(player_id, action, raise_amount) ==
    /\ game_state # NoState
    /\ Len(game_state.betting_history) < MaxHistory
    /\ LET result == apply_action(game_state, player_id, action, raise_amount)
       IN  /\ game_state' = IF result.error = "none" THEN result.new_state ELSE game_state
           /\ rules_call' =
                  [op |-> "apply_action", player_id |-> player_id, action |-> action,
                   raise_amount |-> raise_amount, error |-> result.error,
                   reward |-> 0, done |-> FALSE]
    /\ UNCHANGED community_cards
    /\ UNCHANGED <<env, learners, classifier, rewards, done, error, last_call,
                   training>>

\* PreflopEnv.step(action, raise_amount).  A hand that reaches the flop is
\* dealt three community cards and made terminal.
PreflopStep(action, raise_amount) ==
    /\ game_state # NoState => Len(game_state.betting_history) < MaxHistory
    /\ IF game_state = NoState
       THEN /\ rules_call' =
                   [op |-> "step", player_id |-> "None", action |-> action,
                    raise_amount |-> raise_amount, error |-> "ValueError",
                    reward |-> 0, done |-> FALSE]
            /\ UNCHANGED <<game_state, community_cards>>
       ELSE LET current_player == game_state.current_player
                result == apply_action(game_state, current_player, action, raise_amount)
                next_state == result.new_state
                to_flop == next_state.stage = "FLOP" /\ community_cards = 0
            IN  IF result.error # "none"
                THEN /\ rules_call' =
                            [op |-> "step", player_id |-> current_player,
                             action |-> action, raise_amount |-> raise_amount,
                             error |-> result.error, reward |-> 0, done |-> FALSE]
                     /\ UNCHANGED <<game_state, community_cards>>
                ELSE /\ \E player_equity \in PlayerEquities :
                            rules_call' =
                                [op |-> "step", player_id |-> current_player,
                                 action |-> action, raise_amount |-> raise_amount,
                                 error |-> "none",
                                 reward |-> _calculate_preflop_reward(next_state,
                                                                      player_equity),
                                 done |-> \/ is_terminal(next_state)
                                          \/ next_state.stage # "PREFLOP"]
                     /\ community_cards' = IF to_flop THEN 3 ELSE community_cards
                     /\ game_state' =
                            IF to_flop
                            THEN [next_state EXCEPT !.stage = "TERMINAL"]
                            ELSE next_state
    /\ UNCHANGED <<env, learners, classifier, rewards, done, error, last_call,
                   training>>

RulesNext ==
    \/ RulesReset
    \/ \E player_id \in Range(PlayerIds), input \in RulesInputs :
            ApplyAction(player_id, input[1], input[2])
    \/ \E input \in RulesInputs : PreflopStep(input[1], input[2])

RulesSpec == Init /\ [][RulesNext]_vars

\* --------------------------- a hand played from get_available_actions only
\* env.reset() at the head of an episode of src/train.py: the first one, and
\* each one after the loop of the episode before has seen done.
PlayReset ==
    /\ last_call.op = "init" \/ done
    /\ Reset

\* One turn of the loop "while not done": the seat to act is given the list
\* of get_available_actions for the current bet, its own stack and the last
\* raise size, and one action of that list goes to step().  An exception of
\* step() leaves the loop.
PlayStep ==
    /\ Dealt
    /\ ~done
    /\ error = "none"
    /\ \E action \in Range(GeneratedActions) : Step(action)

PlayNext ==
    \/ PlayReset
    \/ PlayStep

PlaySpec == Init /\ [][PlayNext]_vars

\* ------------------------------------- the training loop of src/train.py
\* The state vector a learner is shown for its seat: that of the hand dealt
\* for the episode, cut to two features as in Observations.
TrainVector(seat) == IF seat = "BTN" THEN <<VecUnit, 47>> ELSE <<0, 62>>

\* reward_BTN if current_player == "BTN" else reward_BB.
ActingReward(current_player, reward_pair) ==
    IF current_player = "BTN" THEN reward_pair[1] ELSE reward_pair[2]

\* A reward of step(), in thousandths of a chip, in the units of the table.
LearnerReward(reward) == (reward * QUnit) \div Milli

\* The head of an episode: env.reset(), done = False and the two sums of the
\* episode set to 0.  The first episode follows the construction, each later
\* one the end of the loop of the episode before.
TrainReset ==
    /\ phase = "train"
    /\ last_call.op = "init" \/ (done /\ agent_call.op = "update")
    /\ ResetHand
    /\ episode_reward' = [seat \in Seats |-> 0]
    /\ update_call' = [agent \in Seats |-> NoUpdateCall]
    /\ UNCHANGED <<learners, classifier, rules, episode_rewards>>

\* The head of a turn of "while not done": the learner of the seat to act is
\* shown that seat's state vector and its legal actions, and chooses.
TrainChoose ==
    /\ Dealt
    /\ ~done
    /\ error = "none"
    /\ agent_call.op # "choose_action"
    /\ \E roll \in RandValues :
           ChooseAction(current_turn, TrainVector(current_turn), GeneratedActions, roll)

\* env.step(action) with the action chosen.  An exception of step() leaves
\* the loop.
TrainStep ==
    /\ Dealt
    /\ ~done
    /\ error = "none"
    /\ agent_call.op = "choose_action"
    /\ agent_call.agent = current_turn
    /\ Step(agent_call.action)

\* The rest of the turn: the acting seat's reward is taken from the pair
\* step() returned and added to that seat's sum, and the acting seat's
\* learner is updated with it, with done and with the state that follows.
\* When done is true the loop ends and the two sums are recorded.
TrainUpdate ==
    /\ agent_call.op = "choose_action"
    /\ error = "none"
    /\ last_call.op = "step"
    /\ done \/ current_turn # agent_call.agent
    /\ updates < MaxUpdates
    /\ LET current_player == agent_call.agent
           reward == ActingReward(current_player, rewards)
           accumulated == [episode_reward EXCEPT ![current_player] = @ + reward]
           next_state_vector == IF done THEN NoVector ELSE TrainVector(current_turn)
           legal_actions_next == IF done THEN <<>> ELSE GeneratedActions
       IN  /\ episode_reward' = accumulated
           /\ Q' = [Q EXCEPT ![current_player] =
                       update(@, agent_call.state_vector, agent_call.action,
                              LearnerReward(reward), next_state_vector, done,
                              legal_actions_next)]
           /\ updates' = updates + 1
           /\ agent_call' =
                  [agent_call EXCEPT !.op = "update", !.legal_actions = <<>>,
                                     !.explore = FALSE]
           /\ update_call' =
                  [update_call EXCEPT ![current_player] =
                      [op |-> "update", reward |-> reward, done |-> done]]
           /\ episode_rewards' =
                  IF done
                  THEN Append(episode_rewards, <<accumulated["BTN"], accumulated["BB"]>>)
                  ELSE episode_rewards
    /\ UNCHANGED <<epsilon, original_epsilon, phase, decays>>
    /\ UNCHANGED <<env, rewards, done, error, last_call, classifier, rules>>

TrainNext ==
    \/ TrainReset
    \/ TrainChoose
    \/ TrainStep
    \/ TrainUpdate

TrainSpec == Init /\ [][TrainNext]_vars

\* ------------------------------------------------------------ properties
HasRaise(history) == \E i \in 1..Len(history) : history[i].action = "raise"

LastRecord == betting_history[Len(betting_history)]

StepApplied(action) ==
    /\ Dealt
    /\ last_call = [op |-> "step", action |-> action]
    /\ error = "none"

\* The reward pairs a showdown over the given contributions can return.
ShowdownRewards(contribs) ==
    {calculate_reward_no_fold(eq[1], eq[2], contribs) :
        eq \in UNION {calculate_equity(resp) :
                        resp \in {r \in ServiceResponses : r.status = "ok"}}}

\* C1: after reset() and after every step(), each seat's stack plus its
\* contribution equals the starting stack.
StackConservation ==
    Dealt => \A s \in Seats : players[s].stack + contributions[s] = DefaultStack

\* A raise has been called: both seats have paid chips in.
StackConservationWitness ==
    /\ Dealt
    /\ Len(betting_history) >= 2
    /\ LastRecord.action = "call"
    /\ betting_history[Len(betting_history) - 1].action = "raise"
    /\ \A s \in Seats : contributions[s] > BbPost

\* C2: after reset() and after every step(), whichever action was applied,
\* the cached pot equals the sum of the two contributions.
PotIsSumOfContributions ==
    Dealt => pot = contributions["BTN"] + contributions["BB"]

\* A hand that was raised and then folded.
PotIsSumOfContributionsWitness ==
    /\ Dealt
    /\ pot > BtnPost + BbPost
    /\ LastRecord.action = "fold"
    /\ HasRaise(betting_history)

\* C3: after reset() and after every step(), current_bet equals the larger
\* of the two contributions, also after a Raise clamped to all-in.
CurrentBetIsMaxContribution ==
    Dealt => current_bet = Max(contributions["BTN"], contributions["BB"])

\* A Raise has just been applied for less than the total it asked for.
CurrentBetIsMaxContributionWitness ==
    /\ Dealt
    /\ last_call.op = "step"
    /\ last_call.action.action_type = "raise"
    /\ error = "none"
    /\ LastRecord.action = "raise"
    /\ LastRecord.amount < last_call.action.raise_amount

\* C4: within a hand every stack stays at or above zero, and no step()
\* lowers a seat's contribution.
StacksNonNegativeContributionsMonotone ==
    [][/\ Dealt' => \A s \in Seats : players'[s].stack >= 0
       /\ (Dealt /\ last_call'.op = "step") =>
              \A s \in Seats : contributions'[s] >= contributions[s]]_vars

\* A seat is all-in after a raise and a further action.
StacksNonNegativeContributionsMonotoneWitness ==
    /\ Dealt
    /\ Len(betting_history) >= 2
    /\ HasRaise(betting_history)
    /\ \E s \in Seats : players[s].stack = 0

\* C5: once step() has returned done, the turn is None and, until reset(),
\* every further step() is rejected and leaves the betting state as it was.
TerminalStateFrozen ==
    [][(done /\ last_call'.op = "step") =>
           /\ current_turn = "None"
           /\ error' # "none"
           /\ UNCHANGED env]_vars

\* C6: a step() with an action outside the legal action set of the seat to
\* act fails with IllegalAction and leaves the betting state as it was.
IllegalActionRejected ==
    [][(/\ Dealt
        /\ ~done
        /\ ~LegalActionsRaises
        /\ last_call'.op = "step"
        /\ last_call'.action \notin Range(LegalActions)) =>
           /\ error' = "IllegalAction"
           /\ UNCHANGED env]_vars

\* The action set the claim C7 describes: Fold, Check, raises to at least two
\* big blinds, and nothing else.
IsLimpActionSet(actions) ==
    /\ Fold \in Range(actions)
    /\ Check \in Range(actions)
    /\ Call \notin Range(actions)
    /\ \A a \in Range(actions) :
          \/ a \in {Fold, Check}
          \/ a.action_type = "raise" /\ a.raise_amount >= MinOpenRaise

\* C7: on BigBlind's first turn after Dealer limped, the legal action set
\* generated is exactly Fold, Check and raises to totals of at least 2 big
\* blinds; it holds no Call.  Stated of both generators of the source.
LimpActionSet ==
    (Dealt /\ BbAfterBtnCall /\ ~done) =>
        \/ IsLimpActionSet(get_bb_actions_after_btn_call)
        \/ IsLimpActionSet(get_available_actions(current_bet, players["BB"].stack,
                                                 FALSE, last_raise_size, FALSE))

\* Dealer limped and BigBlind's Check is the call just made.
LimpCheckCalled ==
    /\ Dealt
    /\ last_call = [op |-> "step", action |-> Check]
    /\ betting_history =
           <<Record("BTN", "call", BbPost), Record("BB", "check", None)>>

\* C8: when Dealer opens with a Call and BigBlind then checks, that Check
\* takes the hand to showdown: the turn is not passed on, and step() returns
\* done with the showdown rewards.  The one other outcome is a failed equity
\* request, whose error step() passes on in place of a result.
LimpCheckEndsHand ==
    LimpCheckCalled =>
        /\ current_turn = "BB"
        /\ \/ error = "none" /\ done /\ rewards \in ShowdownRewards(contributions)
           \/ error = "Exception"

LimpCheckEndsHandWitness == LimpCheckCalled /\ error = "none" /\ done

\* C9: a Call made while a Raise stands earlier in the history takes the
\* hand to showdown (the turn is not passed on and step() returns done with
\* the showdown rewards, or passes on the error of a failed equity request);
\* a Call made while no Raise has occurred returns not done and passes the
\* turn to the other seat.
CallAfterRaiseEndsHand ==
    [][(Dealt /\ last_call' = [op |-> "step", action |-> Call]) =>
           IF HasRaise(betting_history)
           THEN /\ current_turn' = current_turn
                /\ \/ /\ error' = "none"
                      /\ done'
                      /\ rewards' \in ShowdownRewards(contributions')
                   \/ error' = "Exception"
           ELSE /\ error' = "none"
                /\ ~done'
                /\ rewards' = <<0, 0>>
                /\ current_turn' = Opponent(current_turn)]_vars

\* A raise has just been called and the hand is over.
CallAfterRaiseEndsHandWitness ==
    /\ StepApplied(Call)
    /\ done
    /\ LastRecord.action = "call"
    /\ HasRaise(betting_history)

\* C10: fewer than two applied actions never reach showdown: after Dealer's
\* opening Call the hand is not over and it is BigBlind's turn, and a hand of
\* one action is over only if that action is Dealer's Fold.
NoShowdownBeforeTwoActions ==
    (Dealt /\ Len(betting_history) < 2) =>
        /\ error # "Exception"
        /\ done => betting_history = <<Record("BTN", "fold", None)>>
        /\ betting_history = <<Record("BTN", "call", BbPost)>> =>
               ~done /\ current_turn = "BB"

\* Dealer has limped and BigBlind is to act.
NoShowdownBeforeTwoActionsWitness ==
    /\ StepApplied(Call)
    /\ betting_history = <<Record("BTN", "call", BbPost)>>
    /\ current_turn = "BB"
    /\ ~done

\* A Raise asks for more chips than the seat to act holds.
RaiseBeyondStack(action) ==
    /\ Dealt
    /\ action.action_type = "raise"
    /\ action.raise_amount - contributions[current_turn] > players[current_turn].stack

\* C11: a Raise to a total whose additional chips exceed the raiser's stack
\* commits exactly the whole stack: afterwards the raiser's stack is 0, its
\* contribution is its previous contribution plus its previous stack, and
\* current_bet is that total, not the total asked for.
ClampedRaiseCommitsWholeStack ==
    [][(last_call'.op = "step" /\ RaiseBeyondStack(last_call'.action)) =>
           LET seat == current_turn
           IN  /\ error' = "none"
               /\ players'[seat].stack = 0
               /\ contributions'[seat] = contributions[seat] + players[seat].stack
               /\ current_bet' = contributions'[seat]
               /\ current_bet' < last_call'.action.raise_amount]_vars

\* The opening raiser asked for more than the stack and is now all-in.
ClampedRaiseCommitsWholeStackWitness ==
    /\ Dealt
    /\ last_call.op = "step"
    /\ last_call.action.action_type = "raise"
    /\ error = "none"
    /\ betting_history = <<Record("BTN", "raise", DefaultStack)>>
    /\ last_call.action.raise_amount > DefaultStack
    /\ players["BTN"].stack = 0
    /\ contributions["BTN"] = DefaultStack
    /\ current_bet = DefaultStack

\* C12: in every state that is not terminal, Fold is among the legal actions
\* generated for the seat to act, on BigBlind's first turn after Dealer's limp
\* too, whichever generator of that turn is asked.
FoldAlwaysLegal ==
    (Dealt /\ ~done /\ ~LegalActionsRaises) =>
        /\ Fold \in Range(LegalActions)
        /\ BbAfterBtnCall =>
               Fold \in Range(BB_actions(players["BB"].stack, contributions["BTN"]))

\* The least total a raise may go to: two big blinds while no raise has
\* occurred in the hand, else the bet plus the size of the last raise.
MinRaiseTotal ==
    IF HasRaise(betting_history)
    THEN current_bet + last_raise_size
    ELSE MinOpenRaise

\* C13: every Raise of a generated legal action set goes to at least the
\* minimum raise total, and a seat whose chips do not reach that total is
\* offered no Raise at all, all-in or other.
RaisesMeetMinimum ==
    (Dealt /\ ~done /\ ~LegalActionsRaises) =>
        /\ \A a \in Range(LegalActions) :
               a.action_type = "raise" => a.raise_amount >= MinRaiseTotal
        /\ contributions[current_turn] + players[current_turn].stack < MinRaiseTotal =>
               \A a \in Range(LegalActions) : a.action_type # "raise"

\* All the chips a seat can have in the pot: its contribution and its stack.
AllInTotal(seat) == contributions[seat] + players[seat].stack

\* C14: the all-in Raise that get_available_actions appends goes to the
\* acting seat's contribution plus its whole stack, and it is offered (on the
\* ladder or appended) whenever that total is above current_bet.
AllInRaiseIsWholeStack ==
    (Dealt /\ ~done) =>
        LET ladder == Range(StandardOptions) \cup {MinRaiseTotal}
            total == AllInTotal(current_turn)
        IN  /\ \A a \in Range(GeneratedActions) :
                   (a.action_type = "raise" /\ a.raise_amount \notin ladder) =>
                       a.raise_amount = total
            /\ total > current_bet => Raise(total) \in Range(GeneratedActions)

\* The step() just made returned done: it ended the hand.
StepEndedHand ==
    /\ Dealt
    /\ last_call.op = "step"
    /\ error = "none"
    /\ done

\* C15: the rewards returned by a step() that ends a hand, by Fold or by
\* showdown, sum to zero; at showdown they are (2 * equity - 1) * pot for the
\* pair calculate_equity returns, whatever the equity service answered.
TerminalRewardsZeroSum ==
    StepEndedHand =>
        /\ rewards[1] + rewards[2] = 0
        /\ LastRecord.action \in {"call", "check"} =>
               \E resp \in {r \in ServiceResponses : r.status = "ok"} :
                   \E eq \in calculate_equity(resp) :
                       /\ rewards[1] = (2 * eq[1] - Milli) * pot
                       /\ rewards[2] = (2 * eq[2] - Milli) * pot

\* The reward of a seat, by its place in the returned pair.
RewardOf(pair, seat) == IF seat = "BTN" THEN pair[1] ELSE pair[2]

\* C16: when a seat folds, step() returns done, the folder's reward is minus
\* its own contribution at that moment and the other seat's reward is plus
\* that amount, whichever seat folds and whatever the contributions are.
FoldRewardIsFoldersContribution ==
    [][(Dealt /\ last_call' = [op |-> "step", action |-> Fold]) =>
           LET folder == current_turn
           IN  /\ error' = "none"
               /\ done'
               /\ RewardOf(rewards', folder) = -(Milli * contributions[folder])
               /\ RewardOf(rewards', Opponent(folder)) = Milli * contributions[folder]
               /\ contributions' = contributions]_vars

\* BigBlind folded to a re-raise, with more than its blind in and less than
\* Dealer: the amount lost is neither the blind nor the pot.
FoldRewardIsFoldersContributionWitness ==
    /\ StepApplied(Fold)
    /\ done
    /\ LastRecord.player = "BB"
    /\ contributions["BB"] > BbPost
    /\ contributions["BB"] < contributions["BTN"]
    /\ rewards = <<Milli * contributions["BB"], -(Milli * contributions["BB"])>>

\* The greatest of the values a table holds for the actions of a list in a
\* state, an entry never written counting as 0.
GreatestValue(table, state, legal_actions) ==
    LET values == {QGet(table, <<state, action_to_key(legal_actions[i])>>) :
                     i \in 1..Len(legal_actions)}
    IN  CHOOSE m \in values : \A v \in values : v <= m

\* C17: update sets the entry of (state, action) to Q + alpha * (target - Q),
\* where target is the reward when done and otherwise the reward plus gamma
\* times the greatest value the table holds for the next legal actions in the
\* next state (unwritten entries counting 0), a negative one when every such
\* value is negative.  Stated of the updates that are done or name a next
\* state with at least one legal action.
UpdateUsesGreatestNextValue ==
    [][\A reward \in Rewards, next \in NextObservations, is_done \in BOOLEAN :
          (/\ Update(reward, next.state_vector, is_done, next.legal_actions)
           /\ is_done \/ next.legal_actions # <<>>) =>
              LET table == Q[agent_call.agent]
                  key == <<discretize_state(agent_call.state_vector),
                           action_to_key(agent_call.action)>>
                  target ==
                      IF is_done
                      THEN reward
                      ELSE reward
                             + (GammaNum
                                  * GreatestValue(table,
                                                  discretize_state(next.state_vector),
                                                  next.legal_actions)) \div GammaDen
              IN  Q'[agent_call.agent][key] =
                      QGet(table, key) + (target - QGet(table, key)) \div AlphaDen]_vars

\* The value a learner's table holds for an action in the state of a vector.
StoredValue(agent, state_vector, action) ==
    QGet(Q[agent], <<discretize_state(state_vector), action_to_key(action)>>)

\* C18: when exploration is not taken and the table holds no entry for any
\* action of the legal list in the state, choose_action may return every
\* action of the list, not the first one alone.
GreedyUnseenIsUniform ==
    \A o \in Observations, roll \in RandValues :
        (/\ ~(roll < epsilon[o.agent])
         /\ \A i \in 1..Len(o.legal_actions) :
                <<discretize_state(o.state_vector), action_to_key(o.legal_actions[i])>>
                    \notin DOMAIN Q[o.agent]) =>
            choose_action(Q[o.agent], epsilon[o.agent], roll, o.state_vector,
                          o.legal_actions)
                = Range(o.legal_actions)

\* choose_action has just returned without exploring.
GreedyChoiceMade ==
    /\ agent_call.op = "choose_action"
    /\ ~agent_call.explore

\* C19: when exploration is not taken, choose_action returns an action of the
\* legal list whose stored value in the state is the greatest of the list, and
\* the first such action in the order of the list.
GreedyChoiceIsFirstMaximal ==
    GreedyChoiceMade =>
        LET legal == agent_call.legal_actions
            Value(a) == StoredValue(agent_call.agent, agent_call.state_vector, a)
        IN  \E i \in 1..Len(legal) :
                /\ legal[i] = agent_call.action
                /\ \A j \in 1..Len(legal) : Value(legal[j]) <= Value(legal[i])
                /\ \A j \in 1..(i - 1) : Value(legal[j]) < Value(legal[i])

\* The second of three actions was returned: it beats the first and ties
\* with the third.
GreedyChoiceIsFirstMaximalWitness ==
    /\ GreedyChoiceMade
    /\ Len(agent_call.legal_actions) = 3
    /\ agent_call.action = agent_call.legal_actions[2]
    /\ LET Value(a) == StoredValue(agent_call.agent, agent_call.state_vector, a)
       IN  /\ Value(agent_call.legal_actions[1]) < Value(agent_call.legal_actions[2])
           /\ Value(agent_call.legal_actions[3]) = Value(agent_call.legal_actions[2])

\* Every action the learners are shown.
ShownActions ==
    UNION {Range(o.legal_actions) : o \in Observations}

\* C20: action keys tell raises apart by their amount and by nothing else:
\* two Raises have one key exactly if their amounts are equal, the key of a
\* Fold, Check or Call is the same whatever amount the action carries, and the
\* entry an update writes is filed under the action's type, with the amount
\* for a Raise and without it for the others.
ActionKeysSeparateRaisesByAmount ==
    /\ \A a, b \in ShownActions :
          /\ (a.action_type = "raise" /\ b.action_type = "raise") =>
                 (action_to_key(a) = action_to_key(b) <=> a.raise_amount = b.raise_amount)
          /\ (a.action_type # "raise" /\ a.action_type = b.action_type) =>
                 action_to_key(a) = action_to_key(b)
    /\ agent_call.op = "update" =>
          \E key \in DOMAIN Q[agent_call.agent] :
              /\ key[1] = discretize_state(agent_call.state_vector)
              /\ key[2][1] = agent_call.action.action_type
              /\ IF agent_call.action.action_type = "raise"
                 THEN key[2] = <<"raise", agent_call.action.raise_amount>>
                 ELSE Len(key[2]) = 1

\* Dealer's table was updated for a Call that carries an amount and holds the
\* one entry a plain Call is filed under; or BigBlind's table holds an entry
\* each for its two Raises.
ActionKeysSeparateRaisesByAmountWitness ==
    \/ /\ agent_call.op = "update"
       /\ agent_call.action = PokerAction("call", 4)
       /\ <<discretize_state(agent_call.state_vector), action_to_key(Call)>>
              \in DOMAIN Q[agent_call.agent]
       /\ Cardinality(DOMAIN Q[agent_call.agent]) = 1
    \/ /\ agent_call.op = "update"
       /\ agent_call.action = Raise(6)
       /\ Cardinality({key \in DOMAIN Q[agent_call.agent] : key[2][1] = "raise"}) = 2

\* C21: the learners share no table state.  An update is made on the learner
\* whose seat chose the action; it writes the one entry of (state, action) in
\* that learner's table, leaves every other entry of it as it was, and leaves
\* the other seat's table unchanged.
UpdateTouchesOwnEntryOnly ==
    [][(updates' # updates) =>
           LET agent == agent_call.agent
               key == <<discretize_state(agent_call.state_vector),
                        action_to_key(agent_call.action)>>
           IN  /\ agent_call.op = "choose_action"
               /\ agent_call.action \in Range(agent_call.legal_actions)
               /\ agent_call'.agent = agent
               /\ Q'[Opponent(agent)] = Q[Opponent(agent)]
               /\ DOMAIN Q'[agent] = DOMAIN Q[agent] \cup {key}
               /\ \A k \in DOMAIN Q[agent] \ {key} : Q'[agent][k] = Q[agent][k]]_vars

\* A learner has just been updated while the other seat's table holds an
\* entry, or while its own table holds another entry.
UpdateTouchesOwnEntryOnlyWitness ==
    /\ agent_call.op = "update"
    /\ updates = MaxUpdates
    /\ <<discretize_state(agent_call.state_vector), action_to_key(agent_call.action)>>
           \in DOMAIN Q[agent_call.agent]
    /\ \/ Q[Opponent(agent_call.agent)] # <<>>
       \/ Cardinality(DOMAIN Q[agent_call.agent]) > 1

\* The two percentages of an answer sum to less than half of 100 %.
SumFarBelowOne(resp) ==
    resp.status = "ok" /\ 2 * (resp.player1Equity + resp.player2Equity) < Milli

\* C22: an answer of the equity service whose two equities sum to far less
\* than 1 is rejected with an error: no step() returns showdown rewards made
\* from such an answer repaired to sum to 1.
LowEquitySumRejected ==
    [][\A resp \in {r \in ServiceResponses : SumFarBelowOne(r)} :
           \A eq \in calculate_equity(resp) :
               ~ /\ Dealt
                 /\ last_call'.op = "step"
                 /\ last_call'.action.action_type \in {"call", "check"}
                 /\ error' = "none"
                 /\ done'
                 /\ rewards' = calculate_reward_no_fold(eq[1], eq[2], contributions')]_vars

\* The hand is one card twice.
SameCardTwice(h) ==
    Len(h) = 4 /\ <<h[1], h[2]>> = <<h[3], h[4]>>

\* C23: classify_hand given the same card twice, such as As and As, fails
\* with an error instead of returning a classification.
IdenticalCardsRejected ==
    (classification # NotClassified /\ SameCardTwice(hand)) =>
        classification.error # "none"

\* The hands of two different cards, in either order.
TwoDistinctCards ==
    {h \in Hands : Len(h) = 4 /\ ~SameCardTwice(h)}

\* The same two cards in the other order.
Swapped(h) == <<h[3], h[4], h[1], h[2]>>

\* The labels classify_hand gives to the hands of two different cards.
Labels ==
    {classify_hand(h).classified : h \in TwoDistinctCards}

\* C24: classify_hand is total and independent of the order of the cards
\* over the 1326 combinations of two different cards: it returns a label that
\* is a key of the equity table, the same result for (c1, c2) and (c2, c1),
\* and exactly 169 different labels over all the combinations.
ClassifyHandTotalOrderIndependent ==
    (classification # NotClassified /\ hand \in TwoDistinctCards) =>
        /\ classification.error = "none"
        /\ classification.classified \in DOMAIN hand_vs_random
        /\ classification.estimated_equity = hand_vs_random[classification.classified]
        /\ classify_hand(Swapped(hand)) = classification
        /\ Cardinality({{<<h[1], h[2]>>, <<h[3], h[4]>>} : h \in TwoDistinctCards}) = 1326
        /\ Cardinality(Labels) = 169
        /\ Labels = DOMAIN hand_vs_random

\* King and ace of different suits, the lower card given first, classified.
ClassifyHandTotalOrderIndependentWitness ==
    /\ hand = <<"K", "s", "A", "h">>
    /\ classification.error = "none"
    /\ classification.classified = "AKo"

\* The betting state of a hand just dealt.
FreshHand ==
    /\ players = [s \in Seats |->
                    [stack |-> DefaultStack - (IF s = "BTN" THEN BtnPost ELSE BbPost),
                     position |-> s]]
    /\ contributions = [s \in Seats |-> IF s = "BTN" THEN BtnPost ELSE BbPost]
    /\ pot = BtnPost + BbPost
    /\ current_bet = BbPost
    /\ betting_history = <<>>
    /\ last_raise_size = None
    /\ current_turn = "BTN"

\* C25: reset() after any sequence of steps gives the betting state a first
\* reset gives: stacks the default less the blind, contributions the blinds,
\* the pot their sum, current_bet the big blind, an empty history, no last
\* raise and the button to act; nothing of the hand before survives.
ResetGivesFreshHand ==
    [][(last_call'.op = "reset") => FreshHand']_vars

\* A reset has just been made.
ResetGivesFreshHandWitness ==
    /\ last_call.op = "reset"
    /\ FreshHand
    /\ ~done

\* C26: after a Raise applied by step() the hand is not terminal, the turn
\* is the other seat's, current_bet is the raiser's new total contribution,
\* and last_raise_size is the new current_bet less the current_bet before.
RaisePassesTurnAndSetsBet ==
    [][(/\ Dealt
        /\ last_call'.op = "step"
        /\ last_call'.action.action_type = "raise"
        /\ error' = "none") =>
           LET raiser == current_turn
           IN  /\ ~done'
               /\ current_turn' \in Seats \ {raiser}
               /\ current_bet' = contributions'[raiser]
               /\ last_raise_size' = current_bet' - current_bet]_vars

\* A Raise has just been applied on top of an earlier raise.
RaisePassesTurnAndSetsBetWitness ==
    /\ Dealt
    /\ last_call.op = "step"
    /\ last_call.action.action_type = "raise"
    /\ error = "none"
    /\ Len(betting_history) >= 2
    /\ betting_history[Len(betting_history) - 1].action = "raise"
    /\ LastRecord.action = "raise"
    /\ last_raise_size > 0

\* C27: a Raise whose total does not exceed the current bet fails with an
\* error and changes nothing: the state of the hand and what the caller holds
\* of the step before stay as they were.
SmallRaiseRejectedUnchanged ==
    [][(/\ last_call'.op = "step"
        /\ last_call'.action.action_type = "raise"
        /\ last_call'.action.raise_amount <= current_bet) =>
           /\ error' = "ValueError"
           /\ UNCHANGED env
           /\ UNCHANGED <<rewards, done>>]_vars

\* A Raise to exactly the current bet, above the blind, has just been refused.
SmallRaiseRejectedUnchangedWitness ==
    /\ Dealt
    /\ last_call.op = "step"
    /\ last_call.action.action_type = "raise"
    /\ last_call.action.raise_amount = current_bet
    /\ current_bet > BbPost
    /\ error = "ValueError"

\* C28: a Fold appends exactly one record to the history and ends the hand;
\* it leaves the stacks, the contributions, the pot, current_bet and
\* last_raise_size as they were.
FoldChangesHistoryOnly ==
    [][(Dealt /\ last_call'.op = "step" /\ last_call'.action.action_type = "fold") =>
           /\ error' = "none"
           /\ done'
           /\ Len(betting_history') = Len(betting_history) + 1
           /\ SubSeq(betting_history', 1, Len(betting_history)) = betting_history
           /\ betting_history'[Len(betting_history')].player = current_turn
           /\ betting_history'[Len(betting_history')].action = "fold"
           /\ UNCHANGED <<players, contributions, pot, current_bet, last_raise_size>>]_vars

\* A seat has just folded to a raise.
FoldChangesHistoryOnlyWitness ==
    /\ Dealt
    /\ last_call = [op |-> "step", action |-> Fold]
    /\ done
    /\ Len(betting_history) >= 2
    /\ betting_history[Len(betting_history) - 1].action = "raise"
    /\ LastRecord.action = "fold"
    /\ pot > BtnPost + BbPost

\* C29: the betting history is append-only during a hand.  Every action
\* step() applies lengthens it by exactly one record, put at its end, of the
\* acting seat and the action; nothing but reset() changes, reorders or
\* removes a record already there.
HistoryAppendOnly ==
    [][(last_call'.op # "reset") =>
           /\ Len(betting_history') \in {Len(betting_history), Len(betting_history) + 1}
           /\ SubSeq(betting_history', 1, Len(betting_history)) = betting_history
           /\ (last_call'.op = "step" /\ error' = "none") =>
                  /\ Len(betting_history') = Len(betting_history) + 1
                  /\ betting_history'[Len(betting_history')].player = current_turn
                  /\ betting_history'[Len(betting_history')].action =
                         last_call'.action.action_type]_vars

\* A fourth action has just been applied and recorded after three others.
HistoryAppendOnlyWitness ==
    /\ Dealt
    /\ last_call.op = "step"
    /\ error = "none"
    /\ Len(betting_history) = MaxHistory
    /\ LastRecord.action = last_call.action.action_type
    /\ betting_history[1].action = "raise"

\* C30: the generated legal action set holds a Raise for every value of the
\* ladder that is at least the minimum raise total and whose additional chips,
\* the value less the seat's contribution, are within the seat's remaining
\* stack: no affordable value of the ladder is left out.
AffordableLadderRaisesOffered ==
    (Dealt /\ ~done) =>
        \A option \in Range(StandardOptions) :
            (/\ option >= MinRaiseTotal
             /\ option - contributions[current_turn] <= players[current_turn].stack) =>
                Raise(option) \in Range(GeneratedActions)

\* C31: each decay_epsilon(rate, floor) call, with a rate of at most 1,
\* leaves epsilon at the greater of floor and the epsilon before times rate:
\* epsilon is not below floor after a decay, and an epsilon at floor stays
\* at floor.
DecayHoldsEpsilonAtFloor ==
    [][\A agent \in Seats, decay_rate \in DecayRates, min_epsilon \in MinEpsilons :
           DecayEpsilon(agent, decay_rate, min_epsilon) =>
               /\ epsilon'[agent] * decay_rate[2] =
                      Max(min_epsilon * decay_rate[2], epsilon[agent] * decay_rate[1])
               /\ epsilon'[agent] >= min_epsilon
               /\ epsilon[agent] = min_epsilon => epsilon'[agent] = min_epsilon
               /\ epsilon'[Opponent(agent)] = epsilon[Opponent(agent)]]_vars

\* One learner has been decayed twice and is held at the floor 0.6, which no
\* product of the rates gives; the other has been decayed below 0.6.
DecayHoldsEpsilonAtFloorWitness ==
    /\ decays["BTN"] = 2
    /\ epsilon["BTN"] = 600
    /\ decays["BB"] >= 1
    /\ epsilon["BB"] < 600

\* C32: GameRules.apply_action raises an error and gives no new state, the
\* state it was given staying as it was, whenever the player is not the
\* state's current player, the state is terminal already, or the action is
\* not among the state's legal actions.
ApplyActionRejectsIllegal ==
    [][(/\ game_state # NoState
        /\ rules_call'.op = "apply_action"
        /\ \/ rules_call'.player_id # game_state.current_player
           \/ game_state.stage = "TERMINAL"
           \/ rules_call'.action \notin Range(get_legal_actions(game_state))) =>
           /\ rules_call'.error = "ValueError"
           /\ game_state' = game_state]_vars

\* apply_action has just refused the player who is not to act, in a hand
\* under way, for an action that the player to act could have taken.
ApplyActionRejectsIllegalWitness ==
    /\ game_state # NoState
    /\ rules_call.op = "apply_action"
    /\ rules_call.error = "ValueError"
    /\ game_state.stage = "PREFLOP"
    /\ Len(game_state.betting_history) >= 1
    /\ rules_call.player_id # game_state.current_player
    /\ rules_call.action \in Range(get_legal_actions(game_state))

\* C33: in the GameRules variant, after every apply_action during pre-flop
\* play each player's stack_sizes plus player_bets is the stack the player
\* started the hand with, the blinds having been taken off once, at the
\* creation of the hand; and no stack is negative.
RulesStackConservation ==
    (/\ game_state # NoState
     /\ game_state.stage = "PREFLOP"
     /\ rules_call.op \in {"apply_action", "step"}) =>
        \A p \in Range(PlayerIds) :
            /\ game_state.stack_sizes[p] + game_state.player_bets[p] = DefaultStack
            /\ game_state.stack_sizes[p] >= 0

\* C34: in the GameRules variant, when the dealer opens with a Call the big
\* blind gets its option: the hand is still in pre-flop play, the big blind is
\* the current player and Check is among its legal actions; the hand has not
\* ended before the big blind acts.
BigBlindGetsOption ==
    (/\ game_state # NoState
     /\ Len(game_state.betting_history) = 1
     /\ game_state.betting_history[1].player = PlayerIds[1]
     /\ game_state.betting_history[1].action = "CALL") =>
        /\ game_state.stage = "PREFLOP"
        /\ game_state.current_player = PlayerIds[2]
        /\ "CHECK" \in Range(get_legal_actions(game_state))
        /\ ~rules_call.done

\* The player of the GameRules variant in a seat, and its action for an
\* action of the environment.
PlayerOf(seat) == IF seat = "BTN" THEN PlayerIds[1] ELSE PlayerIds[2]

RulesActionOf(act) ==
    CASE act = "fold" -> "FOLD"
      [] act = "call" -> "CALL"
      [] act = "check" -> "CHECK"
      [] act = "raise" -> "RAISE"

\* The GameState that GameRules reaches when the actions of a history of the
\* environment are given to apply_action one after the other, from the hand
\* created with the same blinds and stacks.  An action it refuses, or one
\* that comes after pre-flop play has ended, changes nothing.
RECURSIVE RulesAfter(_)
RulesAfter(history) ==
    IF history = <<>>
    THEN GameState([p \in Range(PlayerIds) |-> DefaultStack], DefaultBlinds)
    ELSE LET before == RulesAfter(SubSeq(history, 1, Len(history) - 1))
             record == history[Len(history)]
             result == apply_action(before, PlayerOf(record.player),
                                    RulesActionOf(record.action),
                                    IF record.action = "raise" THEN record.amount ELSE None)
         IN  IF before.stage # "PREFLOP" \/ result.error # "none"
             THEN before
             ELSE result.new_state

\* The rule of PreflopHeadsUpEnv.step has ended the hand at some action of the
\* history.
EnvEndedBy(history) ==
    \E i \in 1..Len(history) :
        \/ history[i].action = "fold"
        \/ /\ history[i].action \in {"call", "check"}
           /\ HandTerminates(PokerAction(history[i].action, None), history[i].player,
                             SubSeq(history, 1, i))

\* C35: the two termination rules are not equivalent.  After every sequence of
\* three or more actions that the dealer opens with a Call and that the rule
\* of PreflopHeadsUpEnv.step has not ended, the rule of
\* GameRules._update_game_stage, applied to the same actions from the same
\* blinds and stacks, has ended pre-flop play.
TerminationRulesDiffer ==
    (/\ Dealt
     /\ Len(betting_history) >= 3
     /\ betting_history[1] = Record("BTN", "call", BbPost)
     /\ ~EnvEndedBy(betting_history)) =>
        RulesAfter(betting_history).stage # "PREFLOP"

\* Three actions have been applied, Call, Raise, Raise: the environment's hand
\* goes on, that of GameRules has ended.
TerminationRulesDifferWitness ==
    /\ Dealt
    /\ Len(betting_history) = 3
    /\ betting_history[1] = Record("BTN", "call", BbPost)
    /\ betting_history[2].action = "raise"
    /\ betting_history[3].action = "raise"
    /\ ~EnvEndedBy(betting_history)
    /\ ~done
    /\ error = "none"
    /\ RulesAfter(betting_history).stage # "PREFLOP"

\* The chips the two seats have behind.
StacksBehind == players["BTN"].stack + players["BB"].stack

\* C36: a hand played with actions of get_available_actions only ends after
\* finitely many steps and no betting state of a hand under way comes back:
\* every step that does not end the hand takes chips from a stack, so the
\* chips behind go down until the hand is over.
LiveStepCommitsChips ==
    [][(PlayStep /\ ~done' /\ error' = "none") => StacksBehind' < StacksBehind]_vars

\* C37: every Raise that step() accepts, its requested total above the
\* current bet, leaves current_bet strictly greater than it was and
\* last_raise_size strictly positive, also when the raise is cut down to the
\* raiser's all-in.
AcceptedRaiseLiftsBet ==
    [][(/\ Dealt
        /\ last_call'.op = "step"
        /\ last_call'.action.action_type = "raise"
        /\ last_call'.action.raise_amount > current_bet
        /\ error' = "none") =>
           /\ current_bet' > current_bet
           /\ last_raise_size' > 0]_vars

\* C38: every Raise that get_available_actions offers the seat to act, for
\* the current bet, that seat's stack and the last raise size, is accepted by
\* step() and honoured exactly: no error, no cut to the stack, and afterwards
\* the raiser's contribution, the current bet and the recorded amount are the
\* offered total.
OfferedRaiseHonoured ==
    [][(/\ Dealt
        /\ last_call'.op = "step"
        /\ last_call'.action.action_type = "raise"
        /\ last_call'.action \in Range(GeneratedActions)) =>
           LET raiser == current_turn
               to_total == last_call'.action.raise_amount
           IN  /\ error' = "none"
               /\ contributions'[raiser] = to_total
               /\ contributions'[raiser] - contributions[raiser] =
                      players[raiser].stack - players'[raiser].stack
               /\ current_bet' = to_total
               /\ betting_history' =
                      Append(betting_history, Record(raiser, "raise", to_total))]_vars

\* The dealer has opened with a raise within its stack and a Raise that
\* get_available_actions then offered BB has just been applied.
OfferedRaiseHonouredWitness ==
    /\ Dealt
    /\ last_call.op = "step"
    /\ last_call.action.action_type = "raise"
    /\ error = "none"
    /\ Len(betting_history) = 2
    /\ betting_history[1].player = "BTN"
    /\ betting_history[1].action = "raise"
    /\ betting_history[1].amount <= DefaultStack
    /\ last_call.action \in
           Range(get_available_actions(betting_history[1].amount, DefaultStack - BbPost,
                                       FALSE, betting_history[1].amount - BbPost, FALSE))
    /\ LastRecord = Record("BB", "raise", last_call.action.raise_amount)
    /\ contributions["BB"] = last_call.action.raise_amount

\* C39: when the equity oracle fails during a Call or Check that ends the
\* hand at showdown, step() passes the error on and the state of the
\* environment (stacks, contributions, pot, history, turn) is what it was
\* before that step.
OracleFailureLeavesHandUntouched ==
    [][(/\ Dealt
        /\ last_call'.op = "step"
        /\ last_call'.action.action_type \in {"call", "check"}
        /\ error' = "Exception") =>
           UNCHANGED <<players, contributions, pot, betting_history, current_turn>>]_vars

\* Both seats have an action in the history.
BothSeatsActed ==
    \A seat \in Seats :
        \E i \in 1..Len(betting_history) : betting_history[i].player = seat

====
